---------------------------- MODULE Spec2Model ----------------------------
(***************************************************************************)
(* A model of rust-react-gui (src/src/main.rs): the IPC request/response   *)
(* protocol (TuffiProtocolHandler, handle_ipc_message), the file watcher   *)
(* callback and the tao event-loop closure that drains both channels.      *)
(*                                                                         *)
(* Text is modelled by TLA+ strings; TLC evaluates Len, \o and SubSeq on   *)
(* them, so every formatting and parsing step is computed character by     *)
(* character as the code computes it.                                      *)
(***************************************************************************)
EXTENDS Integers, Sequences, FiniteSets, TLC

VARIABLES
    overflow_checks,  \* build profile: TRUE = debug (overflow panics), FALSE = release (wraps)
    inbox,            \* bodies the UI layer is still going to post (window.ipc.postMessage)
    fs_left,          \* file-system events the watched directory is still going to see
    rx,               \* mpsc channel of delivery scripts (tx in setup_webview, rx in main)
    watcher_rx,       \* crossbeam channel of reload signals
    control_flow,     \* *control_flow as the closure leaves it
    pc,               \* where the event-loop closure stands
    alive,            \* "running", "exited" (loop torn down), "panicked"
    last,             \* the latest handle_ipc_message call: what it read and built
    handled,          \* number of handle_ipc_message calls so far (message ids)
    send_count,       \* message id -> tx.send attempts made for it
    exec_count,       \* message id -> times its script was run by evaluate_script
    matched,          \* file events that passed the watcher's filter so far
    dropped,          \* messages whose send failed and was logged
    reloads,          \* reload scripts run so far
    tick_start,       \* what both channels held when the current/latest tick began
    tick_log,         \* what the current/latest tick did to the webview and window
    event             \* the event of the closure's current/latest call ("none" before any)

vars == <<overflow_checks, inbox, fs_left, rx, watcher_rx, control_flow, pc, alive,
          last, handled, send_count, exec_count, dropped, matched, reloads, tick_start,
          tick_log, event>>

----------------------------------------------------------------------------
(* Bounds of the model. *)

\* longest argument list of a generated add request
MaxArgs == 3
\* longest burst of messages the UI posts in one run
MaxMsgs == 2
\* most file events in one run
MaxFileEvents == 2

----------------------------------------------------------------------------
(* Text helpers. *)

Char(s, i) == SubSeq(s, i, i)

DigitChars == {"0", "1", "2", "3", "4", "5", "6", "7", "8", "9"}

DigitVal(c) ==
    CASE c = "0" -> 0 [] c = "1" -> 1 [] c = "2" -> 2 [] c = "3" -> 3 [] c = "4" -> 4
      [] c = "5" -> 5 [] c = "6" -> 6 [] c = "7" -> 7 [] c = "8" -> 8 [] c = "9" -> 9

DigitChar(d) == Char("0123456789", d + 1)

StartsWith(s, prefix) ==
    /\ Len(s) >= Len(prefix)
    /\ SubSeq(s, 1, Len(prefix)) = prefix

\* i32::MAX and i32::MIN
I32_MAX == 2147483647
I32_MIN == -I32_MAX - 1
\* i32::MAX / 10: the largest accumulator checked_mul(10) accepts
I32_MAX_DIV10 == I32_MAX \div 10

\* a + b leaves the i32 range (decided without leaving it)
AddOverflows(a, b) ==
    \/ b > 0 /\ a > I32_MAX - b
    \/ b < 0 /\ a < I32_MIN - b

\* the two's-complement result of an overflowing a + b (wrapping_add):
\* a + b - 2^32 above the range, a + b + 2^32 below it
WrappingAdd(a, b) ==
    IF ~AddOverflows(a, b) THEN a + b
    ELSE IF b > 0 THEN (a + I32_MIN) + (b + I32_MIN)
    ELSE (a - I32_MIN) + (b - I32_MIN)

\* Display of an unsigned number
RECURSIVE NatToDec(_)
NatToDec(n) == IF n < 10 THEN DigitChar(n) ELSE NatToDec(n \div 10) \o DigitChar(n % 10)

\* the digits of |n| for n < 0, taken from n itself (-i32::MIN is no i32)
RECURSIVE NegToDec(_)
NegToDec(n) ==
    LET d == (10 - (n % 10)) % 10
        q == (n + d) \div 10
    IN  IF q = 0 THEN DigitChar(d) ELSE NegToDec(q) \o DigitChar(d)

\* Display of i32 / usize ("{}")
ToDec(n) == IF n < 0 THEN "-" \o NegToDec(n) ELSE NatToDec(n)

\* <i32 as FromStr>::from_str: an optional sign, then one or more decimal digits,
\* accumulated with checked arithmetic (negative numbers by subtraction).
RECURSIVE ParseDigits(_, _, _, _)
ParseDigits(s, i, acc, positive) ==
    IF i > Len(s) THEN [ok |-> TRUE, val |-> acc]
    ELSE IF Char(s, i) \notin DigitChars THEN [ok |-> FALSE, val |-> 0]
    ELSE LET d == DigitVal(Char(s, i))
             \* checked_mul(10), then checked_add(d) / checked_sub(d)
             fits == IF positive
                     THEN acc <= I32_MAX_DIV10 /\ acc * 10 <= I32_MAX - d
                     ELSE acc >= -I32_MAX_DIV10 /\ acc * 10 >= I32_MIN + d
         IN  IF ~fits THEN [ok |-> FALSE, val |-> 0]
             ELSE ParseDigits(s, i + 1, IF positive THEN acc * 10 + d ELSE acc * 10 - d,
                              positive)

ParseI32(s) ==
    IF Len(s) = 0 THEN [ok |-> FALSE, val |-> 0]
    ELSE IF s = "+" \/ s = "-" THEN [ok |-> FALSE, val |-> 0]
    ELSE IF Char(s, 1) = "+" THEN ParseDigits(s, 2, 0, TRUE)
    ELSE IF Char(s, 1) = "-" THEN ParseDigits(s, 2, 0, FALSE)
    ELSE ParseDigits(s, 1, 0, TRUE)

\* the escaping both <str as Debug> and serde_json apply to '"' and '\'
RECURSIVE EscapeFrom(_, _)
EscapeFrom(s, i) ==
    IF i > Len(s) THEN ""
    ELSE LET c == Char(s, i)
         IN  (IF c = "\"" THEN "\\\"" ELSE IF c = "\\" THEN "\\\\" ELSE c)
             \o EscapeFrom(s, i + 1)

\* "{:?}" of a String
DebugString(s) == "\"" \o EscapeFrom(s, 1) \o "\""

\* "{:?}" of &[String]
RECURSIVE DebugItems(_, _)
DebugItems(args, i) ==
    IF i > Len(args) THEN ""
    ELSE (IF i > 1 THEN ", " ELSE "") \o DebugString(args[i]) \o DebugItems(args, i + 1)

DebugArgs(args) == "[" \o DebugItems(args, 1) \o "]"

----------------------------------------------------------------------------
(* Option<String>, AppError and Result<String, AppError>. *)

None == [some |-> FALSE, v |-> ""]
Some(s) == [some |-> TRUE, v |-> s]

InvalidArgCount(function, expected, got) ==
    [kind |-> "InvalidArgCount", function |-> function, expected |-> expected,
     got |-> got, message |-> ""]
ParseError(message) ==
    [kind |-> "ParseError", function |-> "", expected |-> 0, got |-> 0,
     message |-> message]
UnknownFunction(name) ==
    [kind |-> "UnknownFunction", function |-> name, expected |-> 0, got |-> 0,
     message |-> ""]
NoError == [kind |-> "", function |-> "", expected |-> 0, got |-> 0, message |-> ""]

Ok(s) == [tag |-> "Ok", val |-> s, err |-> NoError]
Err(e) == [tag |-> "Err", val |-> "", err |-> e]
\* the call did not return: an arithmetic-overflow panic
Panic == [tag |-> "Panic", val |-> "", err |-> NoError]

\* impl fmt::Display for AppError
AppError_to_string(e) ==
    CASE e.kind = "InvalidArgCount" ->
           "Invalid argument count for " \o e.function \o ": expected "
             \o ToDec(e.expected) \o ", got " \o ToDec(e.got)
      [] e.kind = "ParseError" -> "Parse error: " \o e.message
      [] e.kind = "UnknownFunction" -> "Unknown function: " \o e.function

----------------------------------------------------------------------------
(* TuffiProtocolHandler. *)

\* the closure parse_number of handle_add
parse_number(s) ==
    LET r == ParseI32(s)
    IN  IF r.ok THEN [ok |-> TRUE, val |-> r.val, err |-> NoError]
        ELSE [ok |-> FALSE, val |-> 0,
              err |-> ParseError("Failed to parse '" \o s \o "' as number")]

\* a + b on i32: panics with overflow checks on, wraps with them off
AddI32(a, b) ==
    IF ~AddOverflows(a, b) THEN [panic |-> FALSE, val |-> a + b]
    ELSE IF overflow_checks THEN [panic |-> TRUE, val |-> 0]
    ELSE [panic |-> FALSE, val |-> WrappingAdd(a, b)]

\* handle_add with `a - b` for `a + b`
handle_add_subtracts(args) ==
    IF Len(args) # 2
    THEN Err(InvalidArgCount("add", 2, Len(args)))
    ELSE LET a == parse_number(args[1])
         IN  IF ~a.ok THEN Err(a.err)
             ELSE LET b == parse_number(args[2])
                  IN  IF ~b.ok THEN Err(b.err)
                      ELSE IF b.val = I32_MIN \/ AddOverflows(a.val, -b.val) THEN Panic
                      ELSE Ok("Sum: " \o ToDec(a.val - b.val))

\* handle_add with `args.len() < 2` for `args.len() != 2`
handle_add_at_least_two(args) ==
    IF Len(args) < 2
    THEN Err(InvalidArgCount("add", 2, Len(args)))
    ELSE LET a == parse_number(args[1])
         IN  IF ~a.ok THEN Err(a.err)
             ELSE LET b == parse_number(args[2])
                  IN  IF ~b.ok THEN Err(b.err)
                      ELSE LET sum == AddI32(a.val, b.val)
                           IN  IF sum.panic THEN Panic
                               ELSE Ok("Sum: " \o ToDec(sum.val))

\* handle_add parsing args[1] before args[0]
handle_add_second_first(args) ==
    IF Len(args) # 2
    THEN Err(InvalidArgCount("add", 2, Len(args)))
    ELSE LET b == parse_number(args[2])
         IN  IF ~b.ok THEN Err(b.err)
             ELSE LET a == parse_number(args[1])
                  IN  IF ~a.ok THEN Err(a.err)
                      ELSE LET sum == AddI32(a.val, b.val)
                           IN  IF sum.panic THEN Panic
                               ELSE Ok("Sum: " \o ToDec(sum.val))

handle_add(args) ==
    IF Len(args) # 2
    THEN Err(InvalidArgCount("add", 2, Len(args)))
    ELSE LET a == parse_number(args[1])
         IN  IF ~a.ok THEN Err(a.err)
             ELSE LET b == parse_number(args[2])
                  IN  IF ~b.ok THEN Err(b.err)
                      ELSE LET sum == AddI32(a.val, b.val)
                           IN  IF sum.panic THEN Panic
                               ELSE Ok("Sum: " \o ToDec(sum.val))

\* handle matching "Add" and "ADD" like "add"
handle_any_case(function, args) ==
    CASE function = "hello" -> Ok("Hello from Rust! Args: " \o DebugArgs(args))
      [] function \in {"add", "Add", "ADD"} -> handle_add(args)
      [] OTHER -> Err(UnknownFunction(function))

handle(function, args) ==
    CASE function = "hello" -> Ok("Hello from Rust! Args: " \o DebugArgs(args))
      [] function = "add" -> handle_add(args)
      [] OTHER -> Err(UnknownFunction(function))

----------------------------------------------------------------------------
(* The wire format.  An inbound body is modelled by what serde_json's      *)
(* tokenizer makes of its text: a JSON value, or a syntax error.  A node   *)
(* is [t, s, items]: t the kind, s the text of a scalar or the key of an   *)
(* object member, items the elements / members / the member's value.       *)

JSyntaxError == [t |-> "syntax_error", s |-> "", items |-> <<>>]
JNull == [t |-> "null", s |-> "", items |-> <<>>]
JBool(text) == [t |-> "bool", s |-> text, items |-> <<>>]
JNum(text) == [t |-> "num", s |-> text, items |-> <<>>]
JStr(text) == [t |-> "str", s |-> text, items |-> <<>>]
JArr(items) == [t |-> "arr", s |-> "", items |-> items]
JMember(key, value) == [t |-> "member", s |-> key, items |-> <<value>>]
JObj(members) == [t |-> "obj", s |-> "", items |-> members]

JStrings(strs) == [i \in 1..Len(strs) |-> JStr(strs[i])]

\* struct IpcRequest
IpcRequest(function, args) == [function |-> function, args |-> args]
NoRequest == IpcRequest("", <<>>)

\* serde::de::Unexpected, as its Display prints it.  (serde quotes values and field
\* names with backquotes, a character TLA+ strings cannot hold; ' stands for it here
\* and in the messages below.)
Unexpected(node) ==
    CASE node.t = "str" -> "string " \o DebugString(node.s)
      [] node.t = "num" -> "integer '" \o node.s \o "'"
      [] node.t = "bool" -> "boolean '" \o node.s \o "'"
      [] node.t = "null" -> "null"
      [] node.t = "arr" -> "sequence"
      [] node.t = "obj" -> "map"

DeOk(v) == [ok |-> TRUE, val |-> v, err |-> ""]
\* a failed Vec<String> / a failed IpcRequest
DeErr(msg) == [ok |-> FALSE, val |-> <<>>, err |-> msg]
ReqErr(msg) == [ok |-> FALSE, val |-> NoRequest, err |-> msg]

\* <String as Deserialize>
DeString(node) ==
    IF node.t = "str" THEN [ok |-> TRUE, val |-> node.s, err |-> ""]
    ELSE [ok |-> FALSE, val |-> "",
          err |-> "invalid type: " \o Unexpected(node) \o ", expected a string"]

\* <Vec<String> as Deserialize>: the first element that is no string fails the whole
DeVecString(node) ==
    IF node.t # "arr"
    THEN DeErr("invalid type: " \o Unexpected(node) \o ", expected a sequence")
    ELSE LET bad == {i \in 1..Len(node.items) : ~DeString(node.items[i]).ok}
         IN  IF bad = {}
             THEN DeOk([i \in 1..Len(node.items) |-> node.items[i].s])
             ELSE DeErr(DeString(node.items[CHOOSE i \in bad : \A j \in bad : i <= j]).err)

\* visit_map of a struct whose fields are #[serde(default)]: a missing field is
\* the empty String / the empty Vec
RECURSIVE VisitMapDefaults(_, _, _, _)
VisitMapDefaults(members, i, function, args) ==
    IF i > Len(members)
    THEN DeOk(IpcRequest(function.v, IF args.some THEN args.v ELSE <<>>))
    ELSE LET key == members[i].s
             value == members[i].items[1]
         IN  IF key = "function"
             THEN IF function.some THEN ReqErr("duplicate field 'function'")
                  ELSE IF ~DeString(value).ok THEN ReqErr(DeString(value).err)
                  ELSE VisitMapDefaults(members, i + 1,
                                        [some |-> TRUE, v |-> DeString(value).val], args)
             ELSE IF key = "args"
             THEN IF args.some THEN ReqErr("duplicate field 'args'")
                  ELSE IF ~DeVecString(value).ok THEN ReqErr(DeVecString(value).err)
                  ELSE VisitMapDefaults(members, i + 1, function,
                                        [some |-> TRUE, v |-> DeVecString(value).val])
             ELSE VisitMapDefaults(members, i + 1, function, args)

\* the derived visitor's visit_map: members in order, a known key twice is an error,
\* unknown keys are skipped, a missing field is reported at the end
RECURSIVE VisitMap(_, _, _, _)
VisitMap(members, i, function, args) ==
    IF i > Len(members)
    THEN IF ~function.some THEN ReqErr("missing field 'function'")
         ELSE IF ~args.some THEN ReqErr("missing field 'args'")
         ELSE DeOk(IpcRequest(function.v, args.v))
    ELSE LET key == members[i].s
             value == members[i].items[1]
         IN  IF key = "function"
             THEN IF function.some THEN ReqErr("duplicate field 'function'")
                  ELSE LET f == DeString(value)
                       IN  IF ~f.ok THEN ReqErr(f.err)
                           ELSE VisitMap(members, i + 1, [some |-> TRUE, v |-> f.val], args)
             ELSE IF key = "args"
             THEN IF args.some THEN ReqErr("duplicate field 'args'")
                  ELSE LET a == DeVecString(value)
                       IN  IF ~a.ok THEN ReqErr(a.err)
                           ELSE VisitMap(members, i + 1, function, [some |-> TRUE, v |-> a.val])
             ELSE VisitMap(members, i + 1, function, args)

\* the derived visitor's visit_seq: [function, args] by position
VisitSeq(items) ==
    IF Len(items) = 0 THEN ReqErr("invalid length 0, expected struct IpcRequest with 2 elements")
    ELSE LET f == DeString(items[1])
         IN  IF ~f.ok THEN ReqErr(f.err)
             ELSE IF Len(items) = 1
             THEN ReqErr("invalid length 1, expected struct IpcRequest with 2 elements")
             ELSE LET a == DeVecString(items[2])
                  IN  IF ~a.ok THEN ReqErr(a.err)
                      ELSE IF Len(items) > 2 THEN ReqErr("trailing characters")
                      ELSE DeOk(IpcRequest(f.val, a.val))

\* serde_json::from_str::<IpcRequest>(body).  The error text is serde_json's message
\* without its " at line L column C" suffix, which depends on the raw text only.
from_str(body) ==
    CASE body.t = "syntax_error" -> ReqErr("expected value")
      [] body.t = "obj" -> VisitMap(body.items, 1, None, None)
      [] body.t = "arr" -> VisitSeq(body.items)
      [] OTHER -> ReqErr("invalid type: " \o Unexpected(body) \o ", expected struct IpcRequest")

\* struct IpcResponse
IpcResponse(success, data, error) == [success |-> success, data |-> data, error |-> error]
NoResponse == IpcResponse(FALSE, None, None)

\* serde_json's encoding of Option<String>
JsonOption(o) == IF o.some THEN "\"" \o EscapeFrom(o.v, 1) \o "\"" ELSE "null"

\* serde_json::to_string(&response)
to_string(response) ==
    "{\"success\":" \o (IF response.success THEN "true" ELSE "false")
      \o ",\"data\":" \o JsonOption(response.data)
      \o ",\"error\":" \o JsonOption(response.error) \o "}"


\* the three Responses handle_ipc_message builds
response_ok(result) == IpcResponse(TRUE, Some(result), None)
\* the Err arm with `data: Some(String::new())`
response_err_with_data(e) == IpcResponse(FALSE, Some(""), Some(AppError_to_string(e)))
response_err(e) == IpcResponse(FALSE, None, Some(AppError_to_string(e)))
response_decode_failure(e) == IpcResponse(FALSE, None, Some("Failed to parse message: " \o e))

\* the delivery payload
delivery_script(response) ==
    "window.dispatchEvent(new CustomEvent('rust-response', { detail: "
      \o to_string(response) \o " }));"

\* what a handle_ipc_message call has produced when it reaches the send (or panics):
\* calls counts the protocol handler's invocations
Built(decoded, request, calls, response) ==
    [panicked |-> FALSE, decoded |-> decoded, request |-> request, calls |-> calls,
     response |-> response, js |-> delivery_script(response)]
Unwound(request) ==
    [panicked |-> TRUE, decoded |-> TRUE, request |-> request, calls |-> 1,
     response |-> NoResponse, js |-> ""]

\* the inner match: the handler's Result becomes the Response; a panic inside
\* the handler leaves the function before any Response exists
match_result(request, result) ==
    CASE result.tag = "Ok" -> Built(TRUE, request, 1, response_ok(result.val))
      [] result.tag = "Err" -> Built(TRUE, request, 1, response_err(result.err))
      [] result.tag = "Panic" -> Unwound(request)

\* the outer match on serde_json::from_str's Result
match_decoded(decoded) ==
    IF decoded.ok
    THEN match_result(decoded.val, handle(decoded.val.function, decoded.val.args))
    ELSE Built(FALSE, NoRequest, 0, response_decode_failure(decoded.err))

\* handle_ipc_message up to the send: decode, dispatch, build the Response, format
\* the delivery script
handle_ipc_message(body) == match_decoded(from_str(body))

----------------------------------------------------------------------------
(* Channels. *)

\* the receiving ends live in the event-loop closure: they exist until the loop is
\* torn down
receiver_alive == alive = "running"

\* mpsc::Sender::send on the channel of mpsc::channel(): the item is queued unless
\* the receiver is gone
send(q, item) ==
    IF receiver_alive THEN [ok |-> TRUE, q |-> Append(q, item)]
    ELSE [ok |-> FALSE, q |-> q]

\* a channel of capacity 1 (crossbeam_channel::bounded(1)): try_send on a full
\* channel fails and the callback discards the failure
try_send_bounded(q, item) ==
    IF receiver_alive /\ Len(q) < 1 THEN [ok |-> TRUE, q |-> Append(q, item)]
    ELSE [ok |-> FALSE, q |-> q]

\* crossbeam Sender::try_send on the channel of crossbeam_channel::unbounded(): never
\* full, the item is queued unless the receiver is gone
try_send(q, item) ==
    IF receiver_alive THEN [ok |-> TRUE, q |-> Append(q, item)]
    ELSE [ok |-> FALSE, q |-> q]

\* a try_recv that hands out the oldest item and leaves it in the channel
try_recv_peek(q) ==
    IF Len(q) > 0 THEN [ok |-> TRUE, item |-> Head(q), q |-> q]
    ELSE [ok |-> FALSE, item |-> <<>>, q |-> q]

\* Receiver::try_recv: the oldest item, removed, or Err(Empty)
try_recv(q) ==
    IF Len(q) > 0 THEN [ok |-> TRUE, item |-> Head(q), q |-> Tail(q)]
    ELSE [ok |-> FALSE, item |-> <<>>, q |-> q]

----------------------------------------------------------------------------
(* The file watcher's callback. *)

\* index of the last occurrence of character c in s, 0 when there is none
RECURSIVE LastIndexOf(_, _, _)
LastIndexOf(s, c, i) ==
    IF i = 0 THEN 0 ELSE IF Char(s, i) = c THEN i ELSE LastIndexOf(s, c, i - 1)

\* Path::file_name of a path of normal components
FileName(path) == SubSeq(path, LastIndexOf(path, "/", Len(path)) + 1, Len(path))

\* Path::extension: what follows the last '.' of the file name; none when the name
\* has no '.' or only a leading one
Extension(path) ==
    LET name == FileName(path)
        dot == LastIndexOf(name, ".", Len(name))
    IN  IF dot <= 1 THEN None ELSE Some(SubSeq(name, dot + 1, Len(name)))

\* the closure handed to paths.iter().any(..)
should_reload(paths) ==
    \E i \in 1..Len(paths) :
        LET ext == Extension(paths[i])
        IN  ext.some /\ ext.v \in {"js", "css", "html"}

\* whether the callback sends a signal for this Result<Event, Error>
watcher_sends(res) ==
    /\ res.ok
    /\ res.kind \in {"Modify", "Create", "Remove"}
    /\ should_reload(res.paths)

----------------------------------------------------------------------------
(* What the environment can supply. *)

SeqsUpTo(S, n) == UNION {[1..k -> S] : k \in 0..n}

\* the text of a well-formed Request envelope
RequestBody(function, args) ==
    JObj(<<JMember("function", JStr(function)), JMember("args", JArr(JStrings(args)))>>)

\* argument texts: plain, signed and zero-padded numbers, the extremes of i32, one
\* past each extreme, a word, a fraction, the empty string, a padded number
ArgPool ==
    { "1", "2", "-7", "+5", "007", "2147483647", "-2147483648", "2147483648", "-2147483649",
      "abc", "1.5", "", " 2" }

\* add requests: every pair of argument texts, and lists of every length
AddBodies ==
    {RequestBody("add", <<a, b>>) : a \in ArgPool, b \in ArgPool}
      \cup {RequestBody("add", args) : args \in SeqsUpTo({"2", "abc"}, MaxArgs)}

OtherNames == {"hello", "nope", "Add", "HELLO", "", "add "}
OtherArgs == {<<>>, <<"a">>, <<"2", "3">>, <<"x\"y", "b\\c">>}
OtherBodies == {RequestBody(f, args) : f \in OtherNames, args \in OtherArgs}

\* texts that are no Request envelope, and envelopes in unusual but valid shapes
OddBodies ==
    { JSyntaxError, JNull, JBool("true"), JNum("5"), JStr("add"), JObj(<<>>), JArr(<<>>),
      JObj(<<JMember("function", JStr("add"))>>),
      JObj(<<JMember("args", JArr(JStrings(<<"2", "3">>)))>>),
      JObj(<<JMember("function", JNum("1")), JMember("args", JArr(<<>>))>>),
      JObj(<<JMember("function", JStr("add")), JMember("args", JStr("2"))>>),
      JObj(<<JMember("function", JStr("add")), JMember("args", JArr(<<JStr("2"), JNum("3")>>))>>),
      JObj(<<JMember("function", JStr("add")), JMember("function", JStr("add")),
             JMember("args", JArr(<<>>))>>),
      JObj(<<JMember("args", JArr(JStrings(<<"2", "3">>))), JMember("id", JNum("7")),
             JMember("function", JStr("add"))>>),
      JArr(<<JStr("add"), JArr(JStrings(<<"2", "3">>))>>),
      JArr(<<JStr("add")>>),
      JArr(<<JStr("add"), JArr(<<>>), JNull>>) }

Bodies == AddBodies \cup OtherBodies \cup OddBodies

\* the messages of a burst
BurstBodies == {RequestBody("add", <<"2", "3">>), JSyntaxError}

WatchedPaths ==
    { "frontend/dist/assets/index.js", "frontend/dist/assets/style.css",
      "frontend/dist/index.html", "frontend/dist/assets/app.wasm", "frontend/dist/.js" }

\* what notify hands the callback: an error, or an event of some kind on some paths
FileResults ==
    {[ok |-> FALSE, kind |-> "", paths |-> <<>>]}
      \cup {[ok |-> TRUE, kind |-> k, paths |-> ps] :
              k \in {"Access", "Create", "Modify", "Remove"},
              ps \in {<<w>> : w \in WatchedPaths}
                       \cup {<<>>, <<"frontend/dist/README", "frontend/dist/index.html">>}}

----------------------------------------------------------------------------
(* The state machine. *)

NoCall ==
    [id |-> 0, body |-> JNull, panicked |-> FALSE, decoded |-> FALSE,
     request |-> NoRequest, calls |-> 0, response |-> NoResponse, js |-> "",
     pushed |-> 0]

Redraw == [op |-> "redraw", id |-> 0, ok |-> TRUE]

NoTick == [signals |-> 0, queue |-> <<>>]

\* a run's messages are one message out of all of them on a quiet file system, in
\* either build profile, or a burst of messages while files change (no sum of a
\* burst's messages overflows, so one profile stands for both there)
Init ==
    /\ \/ /\ overflow_checks \in BOOLEAN
          /\ inbox \in {<<b>> : b \in Bodies}
          /\ fs_left = 0
       \/ /\ overflow_checks = TRUE
          /\ inbox \in SeqsUpTo(BurstBodies, MaxMsgs)
          /\ fs_left = MaxFileEvents
    /\ rx = <<>>
    /\ watcher_rx = <<>>
    /\ control_flow = "Poll"
    /\ pc = "idle"
    /\ alive = "running"
    /\ last = NoCall
    /\ handled = 0
    /\ send_count = <<>>
    /\ exec_count = <<>>
    /\ dropped = {}
    /\ matched = 0
    /\ reloads = 0
    /\ tick_start = NoTick
    /\ tick_log = <<>>
    /\ event = "none"

\* the end of handle_ipc_message for message id: tx.send(js), its failure logged;
\* a panic ends the process instead
Deliver(id, body, out) ==
    IF out.panicked
    THEN /\ alive' = "panicked"
         /\ send_count' = Append(send_count, 0)
         /\ last' = [id |-> id, body |-> body, panicked |-> TRUE, decoded |-> out.decoded,
                     request |-> out.request, calls |-> out.calls,
                     response |-> out.response, js |-> out.js, pushed |-> 0]
         /\ UNCHANGED <<rx, dropped>>
    ELSE /\ rx' = send(rx, [id |-> id, js |-> out.js]).q
         /\ send_count' = Append(send_count, 1)
         \* eprintln!("Failed to send response: {}", e)
         /\ dropped' = IF send(rx, [id |-> id, js |-> out.js]).ok THEN dropped
                       ELSE dropped \cup {id}
         /\ last' = [id |-> id, body |-> body, panicked |-> FALSE, decoded |-> out.decoded,
                     request |-> out.request, calls |-> out.calls,
                     response |-> out.response, js |-> out.js,
                     pushed |-> Len(rx') - Len(rx)]
         /\ UNCHANGED alive

\* with_ipc_handler's closure: the UI posts the next body and handle_ipc_message runs
\* on it to its end (or to the panic)
IpcMessage ==
    /\ alive = "running"
    /\ inbox # <<>>
    /\ inbox' = Tail(inbox)
    /\ handled' = handled + 1
    /\ exec_count' = Append(exec_count, 0)
    /\ Deliver(handled + 1, Head(inbox), handle_ipc_message(Head(inbox)))
    /\ UNCHANGED <<overflow_checks, fs_left, watcher_rx, control_flow, pc, matched,
                   reloads, tick_start, tick_log, event>>

\* the watcher's callback, on notify's thread
WatcherEvent(res) ==
    /\ alive = "running"
    /\ fs_left > 0
    /\ fs_left' = fs_left - 1
    /\ IF watcher_sends(res)
       THEN /\ watcher_rx' = try_send(watcher_rx, "()").q
            /\ matched' = matched + 1
       ELSE UNCHANGED <<watcher_rx, matched>>
    /\ UNCHANGED <<overflow_checks, inbox, rx, control_flow, pc, alive, last, handled,
                   send_count, exec_count, dropped, reloads, tick_start, tick_log,
                   event>>

\* the loop calls the closure only while it is running and the closure is not
\* already in a call
CanCall == alive = "running" /\ control_flow = "Poll" /\ pc = "idle"

\* the events of the two `()` arms: Event::NewEvents(StartCause::Init), which the loop
\* delivers first if at all, and the events of the `_ => ()` arm
OtherEvents == {"NewEvents(Init)", "Other"}

OtherEvent(e) ==
    /\ CanCall
    /\ e = "NewEvents(Init)" => event = "none"
    /\ event' = e
    /\ control_flow' = "Poll"
    /\ UNCHANGED <<overflow_checks, inbox, fs_left, rx, watcher_rx, pc, alive, last,
                   handled, send_count, exec_count, dropped, matched, reloads,
                   tick_start, tick_log>>

\* a CloseRequested arm that leaves the Poll of the closure's first statement
CloseRequested_stays_poll ==
    /\ CanCall
    /\ event' = "CloseRequested"
    /\ control_flow' = "Poll"
    /\ UNCHANGED <<overflow_checks, inbox, fs_left, rx, watcher_rx, pc, alive, last,
                   handled, send_count, exec_count, dropped, matched, reloads,
                   tick_start, tick_log>>

\* Event::WindowEvent { event: WindowEvent::CloseRequested, .. }: the closure's first
\* statement sets Poll, the arm then sets Exit
CloseRequested ==
    /\ CanCall
    /\ event' = "CloseRequested"
    /\ control_flow' = "Exit"
    /\ UNCHANGED <<overflow_checks, inbox, fs_left, rx, watcher_rx, pc, alive, last,
                   handled, send_count, exec_count, dropped, matched, reloads,
                   tick_start, tick_log>>

\* the closure returned with ControlFlow::Exit: the loop stops, the closure and the
\* receivers, the webview and the watcher it owns are dropped, the process exits
LoopExit ==
    /\ alive = "running"
    /\ control_flow = "Exit"
    /\ pc = "idle"
    /\ alive' = "exited"
    /\ UNCHANGED <<overflow_checks, inbox, fs_left, rx, watcher_rx, control_flow, pc,
                   last, handled, send_count, exec_count, dropped, matched, reloads,
                   tick_start, tick_log, event>>

\* Event::MainEventsCleared: the closure is entered
TickBegin ==
    /\ CanCall
    /\ event' = "MainEventsCleared"
    /\ control_flow' = "Poll"
    /\ pc' = "reload_drain"
    /\ tick_start' = [signals |-> Len(watcher_rx),
                      queue |-> [i \in 1..Len(rx) |-> rx[i].id]]
    /\ UNCHANGED <<overflow_checks, inbox, fs_left, rx, watcher_rx, alive, last, handled,
                   send_count, exec_count, dropped, matched, reloads, tick_log>>

\* a MainEventsCleared arm that ends after the reload loop, without the second loop
ReloadNext_skips_rx(ok) ==
    /\ alive = "running"
    /\ pc = "reload_drain"
    /\ IF try_recv(watcher_rx).ok
       THEN /\ watcher_rx' = try_recv(watcher_rx).q
            /\ reloads' = reloads + 1
            /\ tick_log' = tick_log \o <<[op |-> "reload", id |-> 0, ok |-> ok], Redraw>>
            /\ pc' = pc
       ELSE /\ pc' = "return"
            /\ UNCHANGED <<watcher_rx, reloads, tick_log>>
    /\ UNCHANGED <<overflow_checks, inbox, fs_left, rx, control_flow, alive, last, handled,
                   send_count, exec_count, dropped, matched, tick_start, event>>

\* one turn of `while let Ok(()) = watcher_rx.try_recv()`; ok is what
\* evaluate_script("import.meta.hot.invalidate()") returns
ReloadNext(ok) ==
    /\ alive = "running"
    /\ pc = "reload_drain"
    /\ LET got == try_recv(watcher_rx)
       IN  IF got.ok
           THEN /\ watcher_rx' = got.q
                /\ reloads' = reloads + 1
                /\ tick_log' = tick_log \o <<[op |-> "reload", id |-> 0, ok |-> ok], Redraw>>
                /\ pc' = pc
           ELSE /\ pc' = "rx_drain"
                /\ UNCHANGED <<watcher_rx, reloads, tick_log>>
    /\ UNCHANGED <<overflow_checks, inbox, fs_left, rx, control_flow, alive, last, handled,
                   send_count, exec_count, dropped, matched, tick_start, event>>

\* a second loop that breaks when evaluate_script fails
EvalNext_breaks(ok) ==
    /\ alive = "running"
    /\ pc = "rx_drain"
    /\ IF try_recv(rx).ok
       THEN /\ rx' = try_recv(rx).q
            /\ exec_count' = [exec_count EXCEPT ![try_recv(rx).item.id] = @ + 1]
            /\ tick_log' = tick_log \o <<[op |-> "eval", id |-> try_recv(rx).item.id,
                                           ok |-> ok], Redraw>>
            /\ pc' = IF ok THEN pc ELSE "return"
       ELSE /\ pc' = "return"
            /\ UNCHANGED <<rx, exec_count, tick_log>>
    /\ UNCHANGED <<overflow_checks, inbox, fs_left, watcher_rx, control_flow, alive, last,
                   handled, send_count, dropped, matched, reloads, tick_start, event>>

\* one turn of `while let Ok(js) = rx.try_recv()`; ok is what evaluate_script(&js)
\* returns.  The loop ends when the channel is empty.
EvalNext(ok) ==
    /\ alive = "running"
    /\ pc = "rx_drain"
    /\ LET got == try_recv(rx)
       IN  IF got.ok
           THEN /\ rx' = got.q
                /\ exec_count' = [exec_count EXCEPT ![got.item.id] = @ + 1]
                /\ tick_log' = tick_log \o <<[op |-> "eval", id |-> got.item.id, ok |-> ok],
                                            Redraw>>
                /\ pc' = pc
           ELSE /\ pc' = "return"
                /\ UNCHANGED <<rx, exec_count, tick_log>>
    /\ UNCHANGED <<overflow_checks, inbox, fs_left, watcher_rx, control_flow, alive, last,
                   handled, send_count, dropped, matched, reloads, tick_start, event>>

\* the MainEventsCleared arm is done and the closure returns
TickEnd ==
    /\ alive = "running"
    /\ pc = "return"
    /\ pc' = "idle"
    /\ tick_start' = NoTick
    /\ tick_log' = <<>>
    /\ UNCHANGED <<overflow_checks, inbox, fs_left, rx, watcher_rx, control_flow, alive,
                   last, handled, send_count, exec_count, dropped, matched, reloads,
                   event>>

EventLoop ==
    \/ \E e \in OtherEvents : OtherEvent(e)
    \/ CloseRequested
    \/ LoopExit
    \/ TickBegin
    \/ \E ok \in BOOLEAN : ReloadNext(ok)
    \/ \E ok \in BOOLEAN : EvalNext(ok)
    \/ TickEnd

Next ==
    \/ IpcMessage
    \/ \E res \in FileResults : WatcherEvent(res)
    \/ EventLoop

Spec == Init /\ [][Next]_vars

\* ControlFlow::Poll: while the loop runs, the closure is called again and again with
\* MainEventsCleared, and a call that has begun runs to its end
FairSpec ==
    /\ Init
    /\ [][Next]_vars
    /\ WF_vars(TickBegin)
    /\ WF_vars(\E ok \in BOOLEAN : ReloadNext(ok))
    /\ WF_vars(\E ok \in BOOLEAN : EvalNext(ok))
    /\ WF_vars(TickEnd)

----------------------------------------------------------------------------
(* The claims about one handle_ipc_message call, read off `last`. *)

\* handle_ipc_message has run at least once
Called == last.id > 0

\* the latest call decoded its body to a Request with function = "add"
AddCall == Called /\ last.decoded /\ last.request.function = "add"

\* the latest call was such an add request with two arguments that both parse as i32
AddPairCall ==
    /\ AddCall
    /\ Len(last.request.args) = 2
    /\ ParseI32(last.request.args[1]).ok
    /\ ParseI32(last.request.args[2]).ok

ArgVal(i) == ParseI32(last.request.args[i]).val

\* C1 as stated, on the pairs whose sum is an i32: an add request with two arguments
\* that parse as integers a and b is answered with success = true, error absent and
\* data equal to the decimal string of a + b.
C1_DataIsDecimalSum ==
    (AddPairCall /\ ~AddOverflows(ArgVal(1), ArgVal(2)))
        => last.response = IpcResponse(TRUE, Some(ToDec(ArgVal(1) + ArgVal(2))), None)

\* C1 as amended: an add request with two arguments that parse as signed 32-bit
\* integers a and b is answered with success = true, error absent and data equal to
\* "Sum: " followed by the decimal string of a + b when a + b is an i32; when it is
\* not, the call panics and builds no Response (overflow checks on) or answers with
\* "Sum: " followed by the two's-complement wrapped sum (overflow checks off).
C1_AddSum ==
    AddPairCall =>
        IF ~AddOverflows(ArgVal(1), ArgVal(2))
        THEN /\ ~last.panicked
             /\ last.response
                  = IpcResponse(TRUE, Some("Sum: " \o ToDec(ArgVal(1) + ArgVal(2))), None)
        ELSE IF overflow_checks
        THEN last.panicked /\ alive = "panicked" /\ last.pushed = 0
        ELSE /\ ~last.panicked
             /\ last.response
                  = IpcResponse(TRUE, Some("Sum: " \o ToDec(WrappingAdd(ArgVal(1), ArgVal(2)))),
                                None)

C1_Witness ==
    /\ AddPairCall
    /\ last.request.args = <<"2147483647", "-7">>
    /\ last.response = IpcResponse(TRUE, Some("Sum: 2147483640"), None)

\* C2: an add request whose argument list has a length n other than 2 is answered,
\* whatever the arguments are, with success = false, data absent and error =
\* "Invalid argument count for add: expected 2, got n".
C2_ArgCount ==
    (AddCall /\ Len(last.request.args) # 2)
        => /\ ~last.panicked
           /\ last.response
                = IpcResponse(FALSE, None,
                              Some("Invalid argument count for add: expected 2, got "
                                     \o ToDec(Len(last.request.args))))

C2_Witness ==
    /\ AddCall
    /\ last.request.args = <<"abc", "2", "2">>
    /\ last.response
         = IpcResponse(FALSE, None, Some("Invalid argument count for add: expected 2, got 3"))

\* some argument of the latest request fails integer parsing
SomeArgFails == \E i \in 1..Len(last.request.args) : ~ParseI32(last.request.args[i]).ok

\* C3 as stated: an add request in which at least one argument fails integer parsing,
\* for any number of arguments, is answered with success = false and the ParseError
\* text.
C3_ParseErrorAnyCount ==
    (AddCall /\ SomeArgFails)
        => /\ ~last.response.success
           /\ last.response.error.some
           /\ StartsWith(last.response.error.v, "Parse error: ")

\* the first argument of the latest request that fails integer parsing
FirstBadArg ==
    last.request.args[CHOOSE i \in 1..Len(last.request.args) :
                        /\ ~ParseI32(last.request.args[i]).ok
                        /\ \A j \in 1..(i - 1) : ParseI32(last.request.args[j]).ok]

\* C3 as amended: an add request with exactly two arguments of which at least one
\* fails parsing as a signed 32-bit integer is answered with success = false, data
\* absent and error = "Parse error: Failed to parse '<arg>' as number", <arg> being the
\* first argument that fails; with any other number of arguments the answer is the
\* argument-count error of C2.
C3_ParseErrorOfPair ==
    (AddCall /\ SomeArgFails)
        => /\ ~last.panicked
           /\ last.response
                = IF Len(last.request.args) = 2
                  THEN IpcResponse(FALSE, None,
                                   Some("Parse error: Failed to parse '" \o FirstBadArg
                                          \o "' as number"))
                  ELSE IpcResponse(FALSE, None,
                                   Some("Invalid argument count for add: expected 2, got "
                                          \o ToDec(Len(last.request.args))))

C3_Witness ==
    /\ AddCall
    /\ last.request.args = <<"2147483648", "abc">>
    /\ last.response
         = IpcResponse(FALSE, None,
                       Some("Parse error: Failed to parse '2147483648' as number"))

\* C4: a request whose function name is neither "hello" nor "add" (exact match) is
\* answered, whatever its arguments, with success = false, data absent and error =
\* "Unknown function: " followed by the name unchanged.
C4_UnknownFunction ==
    (Called /\ last.decoded /\ last.request.function \notin {"hello", "add"})
        => /\ ~last.panicked
           /\ last.response
                = IpcResponse(FALSE, None, Some("Unknown function: " \o last.request.function))

C4_Witness ==
    /\ Called /\ last.decoded
    /\ last.request.function = "Add"
    /\ last.request.args = <<"2", "3">>
    /\ last.response = IpcResponse(FALSE, None, Some("Unknown function: Add"))

\* C5: every Response handle_ipc_message builds has data present and error absent when
\* success is true, and error present and data absent when success is false.
C5_Envelope ==
    (Called /\ ~last.panicked)
        => /\ last.response.success => (last.response.data.some /\ ~last.response.error.some)
           /\ ~last.response.success => (last.response.error.some /\ ~last.response.data.some)

\* the handler's Err arm built the Response
C5_Witness ==
    /\ Called /\ last.decoded /\ ~last.panicked
    /\ ~last.response.success
    /\ last.response.error.some /\ ~last.response.data.some

\* the body is no Request envelope: no JSON at all, or an object that lacks the
\* function or the args member, or whose args is no array of strings
HasMember(body, key) == \E i \in 1..Len(body.items) : body.items[i].s = key
BadArgsMember(body) ==
    \E i \in 1..Len(body.items) :
        /\ body.items[i].s = "args"
        /\ \/ body.items[i].items[1].t # "arr"
           \/ \E j \in 1..Len(body.items[i].items[1].items) :
                  body.items[i].items[1].items[j].t # "str"
NotAnEnvelope(body) ==
    \/ body.t = "syntax_error"
    \/ /\ body.t = "obj"
       /\ ~HasMember(body, "function") \/ ~HasMember(body, "args") \/ BadArgsMember(body)

\* C6: a body that does not decode as a Request envelope never crashes the dispatch
\* path and never reaches the Command Handler; exactly one payload is enqueued for it,
\* whose Response has success = false and a non-empty error that starts with
\* "Failed to parse message: ".
C6_DecodeFailure ==
    (Called /\ (~last.decoded \/ NotAnEnvelope(last.body)))
        => /\ ~last.decoded
           /\ ~last.panicked /\ alive # "panicked"
           /\ last.calls = 0
           /\ last.pushed = 1
           /\ send_count[last.id] = 1
           /\ last.id \notin dropped
           /\ last.js = delivery_script(last.response)
           /\ ~last.response.success
           /\ ~last.response.data.some
           /\ last.response.error.some
           /\ StartsWith(last.response.error.v, "Failed to parse message: ")

\* the payload of a body without args is in the queue
C6_Witness ==
    /\ last.body = JObj(<<JMember("function", JStr("add"))>>)
    /\ last.response
         = IpcResponse(FALSE, None, Some("Failed to parse message: missing field 'args'"))
    /\ rx = <<[id |-> last.id, js |-> last.js]>>

----------------------------------------------------------------------------
(* The claims about delivery and the event loop. *)

IsEval(e) == e.op = "eval"
IsReload(e) == e.op = "reload"

\* the message ids a tick has run, in the order it ran them
EvalIds(log) == [i \in 1..Len(SelectSeq(log, IsEval)) |-> SelectSeq(log, IsEval)[i].id]
ReloadCount(log) == Len(SelectSeq(log, IsReload))
IsPrefix(p, q) == Len(p) <= Len(q) /\ SubSeq(q, 1, Len(p)) = p

InQueue(id) == Cardinality({i \in 1..Len(rx) : rx[i].id = id})

Sent(id) == id <= handled /\ send_count[id] = 1 /\ id \notin dropped
Delivered(id) == id <= handled /\ exec_count[id] = 1
LoopStopped == control_flow = "Exit" \/ alive # "running"

\* C8 as stated, at the end of a run: once the loop has exited, every message that
\* was received has been delivered or its send failed and was logged.
C8_TerminalAtExit ==
    alive = "exited" => \A id \in 1..handled : Delivered(id) \/ id \in dropped

\* C8 as amended: every message whose payload was enqueued is eventually delivered
\* unless the loop stops first (a close request, or the process ends); a payload that
\* is in the queue when the loop stops is never run and nothing is logged for it.
\* No message is both delivered and logged as dropped.
C8_DeliveredUnlessStopped ==
    /\ \A id \in 1..MaxMsgs : Sent(id) ~> (Delivered(id) \/ LoopStopped)
    /\ [](\A id \in 1..handled : ~(Delivered(id) /\ id \in dropped))
    /\ [][alive' = "exited" => rx' = rx /\ exec_count' = exec_count /\ dropped' = dropped]_vars

\* two messages were enqueued and both were delivered
C8_Witness ==
    /\ handled = 2
    /\ Sent(1) /\ Sent(2)
    /\ Delivered(1) /\ Delivered(2)
    /\ alive = "running"

TickShape ==
    /\ Len(tick_log) % 2 = 0
    /\ \A i \in 1..Len(tick_log) :
         IF i % 2 = 1 THEN IsReload(tick_log[i]) \/ IsEval(tick_log[i])
         ELSE tick_log[i] = Redraw
    /\ \A i \in 1..Len(tick_log) : \A j \in 1..Len(tick_log) :
         (i < j /\ IsEval(tick_log[i])) => ~IsReload(tick_log[j])

\* C10: a tick first consumes every pending reload signal (a reload and a redraw
\* request each), then drains the outbound queue: every payload that was queued when
\* the tick began is run in that tick, in the order it was enqueued, with a redraw
\* request each, whether or not a reload or a script fails.
C10_TickDrains ==
    /\ TickShape
    /\ pc = "idle" => tick_log = <<>>
    /\ pc = "reload_drain" => EvalIds(tick_log) = <<>>
    /\ pc = "rx_drain" =>
         /\ ReloadCount(tick_log) >= tick_start.signals
         /\ \/ IsPrefix(EvalIds(tick_log), tick_start.queue)
            \/ IsPrefix(tick_start.queue, EvalIds(tick_log))
    /\ pc = "return" =>
         /\ ReloadCount(tick_log) >= tick_start.signals
         /\ IsPrefix(tick_start.queue, EvalIds(tick_log))

\* a tick that began with one signal and two payloads ran all three, although the
\* reload and the first script failed
C10_Witness ==
    /\ pc = "return"
    /\ tick_start = [signals |-> 1, queue |-> <<1, 2>>]
    /\ tick_log = << [op |-> "reload", id |-> 0, ok |-> FALSE], Redraw,
                     [op |-> "eval", id |-> 1, ok |-> FALSE], Redraw,
                     [op |-> "eval", id |-> 2, ok |-> TRUE], Redraw >>

----------------------------------------------------------------------------
(* The claim about what each arm of the closure leaves in *control_flow. *)

\* the closure's latest call has returned
Returned == pc = "idle" /\ event # "none"

\* the call's event was one of those the closure does not end the loop on
NotCloseEvent == event \in OtherEvents \cup {"MainEventsCleared"}

\* C11: when the closure returns from a CloseRequested event the control flow is Exit
\* (the Poll assigned by the closure's first statement does not survive the call);
\* when it returns from any other event (Init, MainEventsCleared, anything else) the
\* control flow is Poll; and the call for a CloseRequested event runs no payload and
\* no reload and takes nothing from either channel.
C11_CloseExits ==
    /\ []((Returned /\ event = "CloseRequested") => control_flow = "Exit")
    /\ []((Returned /\ NotCloseEvent) => control_flow = "Poll")
    /\ [][(event' = "CloseRequested" /\ control_flow # "Exit")
            => UNCHANGED <<rx, watcher_rx, exec_count, reloads, tick_log>>]_vars

\* a close request handled while a payload and a reload signal were pending: both are
\* still in their channels and the loop is at Exit
C11_Witness ==
    /\ Returned
    /\ event = "CloseRequested"
    /\ control_flow = "Exit"
    /\ rx # <<>>
    /\ watcher_rx # <<>>
    /\ \E id \in 1..Len(exec_count) : exec_count[id] = 0

----------------------------------------------------------------------------
(* The claim that dispatching an add request never ends the process. *)

\* s is a decimal numeral, with or without a sign
RECURSIVE AllDigitsFrom(_, _)
AllDigitsFrom(s, i) ==
    i > Len(s) \/ (Char(s, i) \in DigitChars /\ AllDigitsFrom(s, i + 1))

IsNumeral(s) ==
    IF Len(s) = 0 THEN FALSE
    ELSE IF Char(s, 1) \in {"+", "-"} THEN Len(s) > 1 /\ AllDigitsFrom(s, 2)
    ELSE AllDigitsFrom(s, 1)

\* s is a numeral of an integer outside the signed 32-bit range
OutOfRange(s) == IsNumeral(s) /\ ~ParseI32(s).ok

\* the latest call built a Response and enqueued its delivery script, and the process
\* goes on
Responded ==
    /\ ~last.panicked
    /\ alive # "panicked"
    /\ last.response # NoResponse
    /\ last.pushed = 1

\* C12 as stated: an add request with two arguments that parse as signed 32-bit
\* integers never ends the process nor the dispatch, the pairs whose sum is outside
\* the 32-bit range included: a Response is produced and enqueued; and a request with
\* an argument that is a numeral outside the 32-bit range is answered with a
\* ParseError Response.
C12_AddNeverAborts ==
    /\ AddPairCall => Responded
    /\ (AddCall /\ Len(last.request.args) = 2
          /\ \E i \in 1..2 : OutOfRange(last.request.args[i]))
        => /\ Responded
           /\ ~last.response.success
           /\ last.response.error.some
           /\ StartsWith(last.response.error.v, "Parse error: ")

\* C12, what the code does: an add request is answered with an enqueued Response
\* except when its two arguments parse as signed 32-bit integers whose sum is outside
\* the 32-bit range and the build checks overflow: then a + b panics, no Response is
\* built or enqueued and the process ends.  With overflow checks off that request is
\* answered with the wrapped sum.  A numeral outside the 32-bit range among two
\* arguments is answered with a ParseError Response.
C12_AbortsOnCheckedOverflow ==
    /\ AddCall =>
          IF /\ Len(last.request.args) = 2
             /\ ParseI32(last.request.args[1]).ok
             /\ ParseI32(last.request.args[2]).ok
             /\ AddOverflows(ArgVal(1), ArgVal(2))
             /\ overflow_checks
          THEN /\ last.panicked
               /\ alive = "panicked"
               /\ last.response = NoResponse
               /\ last.pushed = 0
               /\ rx = <<>>
          ELSE Responded
    /\ (AddCall /\ Len(last.request.args) = 2
          /\ \E i \in 1..2 : OutOfRange(last.request.args[i]))
        => /\ ~last.response.success
           /\ StartsWith(last.response.error.v, "Parse error: ")

\* the request add("2147483647", "1") in a build that checks overflow: the call
\* panicked, nothing was enqueued
C12_Witness ==
    /\ AddPairCall
    /\ last.request.args = <<"2147483647", "1">>
    /\ overflow_checks
    /\ last.panicked
    /\ alive = "panicked"
    /\ last.pushed = 0
    /\ rx = <<>>

=============================================================================
